---- MODULE Spec2Model ----
(***************************************************************************)
(* A model of gdbplotter's TraceParser (src/src/gdbplotter/               *)
(* armtraceparser.py): the DWT/ITM packet scan, the ETB buffer drain, and  *)
(* the start / receive / stop life cycle with its background worker.       *)
(*                                                                         *)
(* Bytes are integers 0..255, byte strings are sequences of bytes.  A      *)
(* region is identified by its position in the region list (its name);     *)
(* regions[i] is the region's byte count (struct.calcsize of its format).  *)
(* Python offsets are kept 0-based: trace_stream[offset] in the source is  *)
(* stream[offset + 1] here.                                                *)
(***************************************************************************)
EXTENDS Integers, Sequences, FiniteSets, TLC

VARIABLES
  regions,          \* self.regions: sequence of byte counts, name = position
  comparator_map,   \* self.comparator_map: comparator index -> region name
  trace_configured, \* self.trace_configured
  etb_buffer_size,  \* self.etb_buffer_size (bytes)
  is_running,       \* self.is_running (the worker's running flag)
  rx,               \* the rx threads launched so far: sequence of positions
  rxq,              \* self.rxq: region name -> sequence of packets
  hw,               \* the target's registers that start() and stop() program
  last_call,        \* the most recent start() or stop() call and its outcome
  ncalls,           \* number of start()/stop() calls made so far
  last_stream,      \* what the drain of the latest trace-mode receive() returned
  last_recv,        \* the latest receive(): did its try block raise, and if
                    \* so the polling cycles it ran
  trace_stream,     \* packet scan: the stream being scanned
  offset,           \* packet scan: the cursor
  region_data,      \* packet scan: region name -> payloads found so far
  overflow_warnings, \* packet scan: overflow warnings printed
  iters,            \* packet scan: loop iterations executed
  ppc,              \* packet scan: "scan" while in the loop, then "done"
  etb,              \* buffer drain: the ETB's status and pointer registers
  drained,          \* buffer drain: result of the most recent drain
  stop_pc,          \* threads: where the thread that called stop() is in it
  rx_cmds,          \* threads: transport commands the rx thread's receive()
                    \* has still to issue
  wire,             \* threads: the threads with a command on the connection
                    \* whose response has not been read yet, in sending order
  detect,           \* size detection: the RWD register, the fault, the result
  cycles            \* receive cycles: the stream each cycle drained, with the
                    \* fault it met

sysvars   == <<comparator_map, trace_configured, etb_buffer_size, is_running,
               rx, rxq, hw, last_call, ncalls, last_stream, last_recv>>
parsevars == <<trace_stream, offset, region_data, overflow_warnings, iters, ppc>>
drainvars == <<etb, drained>>
threadvars == <<stop_pc, rx_cmds, wire>>
auxvars   == <<detect, cycles>>
vars      == <<regions, sysvars, parsevars, drainvars, threadvars, auxvars>>

(***************************************************************************)
(* Bounds of the model.                                                    *)
(***************************************************************************)
MaxStreamLen    == 4   \* longest stream drawn over StreamBytes
MaxParseRegions == 1   \* most regions in a packet-scan configuration
MaxRegions      == 5   \* most regions of a parser in the life-cycle model
MaxCalls        == 2   \* start() and stop() calls in one behaviour
MaxQueue        == 1   \* packets a region's queue holds before the consumer pops
MaxPtr          == 9   \* largest value the ETB pointer registers hold
MaxBufWords     == 8   \* largest detected buffer depth, in words
MaxDrains       == 1   \* drains in one behaviour of the drain model
MaxCaptures     == 1   \* words the hardware writes in one behaviour of it
MaxThreadRegions == 2  \* most regions of a parser in the thread model
MaxCycles       == 2   \* receive() calls in one behaviour of the cycle model
MaxDepth        == 16  \* the RWD register holds 0..MaxDepth or a value at a limit

----------------------------------------------------------------------------
(***************************************************************************)
(* Helpers for Python's sequence operations.                               *)
(***************************************************************************)
Min(a, b) == IF a < b THEN a ELSE b
Max(a, b) == IF a > b THEN a ELSE b

\* s[a:b] with 0 <= a: Python clamps the slice to the sequence
Slice(s, a, b) == SubSeq(s, a + 1, Min(b, Len(s)))

RECURSIVE SeqsUpTo(_, _)
SeqsUpTo(S, n) ==
  IF n = 0 THEN {<<>>}
  ELSE LET shorter == SeqsUpTo(S, n - 1)
       IN  shorter \cup {Append(s, b) : s \in {t \in shorter : Len(t) = n - 1}, b \in S}

\* dict[key].append(v), creating the list when the key is new
DictAppend(d, k, v) ==
  [x \in DOMAIN d \cup {k} |->
     IF x = k THEN (IF k \in DOMAIN d THEN Append(d[k], v) ELSE <<v>>) ELSE d[x]]

EmptyDict == [x \in {} |-> <<>>]

----------------------------------------------------------------------------
(***************************************************************************)
(* The packet scan: _parse_dwt_packet, _parse_itm_packet,                  *)
(* _parse_trace_packets.                                                   *)
(***************************************************************************)
NoPacket == [ok |-> FALSE, num |-> 0, data |-> <<>>, consumed |-> 0]

valid_dwt_discriminators == {1, 2, 3, 14, 15}

DwtPayloadSize(header) == <<1, 2, 4, 4>>[((header \div 2) % 4) + 1]

\* ParseDwtPacket with the comparator taken from bits 2:0 of the header
ParseDwtPacket_m(header, off, stream) ==
  LET discriminator == (header \div 8) % 32
      comp_num      == header % 8
      payload_size  == DwtPayloadSize(header)
  IN  IF discriminator \notin valid_dwt_discriminators THEN NoPacket
      ELSE IF off + payload_size > Len(stream) THEN NoPacket
      ELSE [ok |-> TRUE, num |-> comp_num,
            data |-> Slice(stream, off, off + payload_size),
            consumed |-> payload_size]

\* (comp_num, data_bytes, payload_size), or (None, None, 0)
ParseDwtPacket(header, off, stream) ==
  LET discriminator == (header \div 8) % 32
      comp_num      == header % 4
      payload_size  == DwtPayloadSize(header)
  IN  IF discriminator \notin valid_dwt_discriminators THEN NoPacket
      ELSE IF off + payload_size > Len(stream) THEN NoPacket
      ELSE [ok |-> TRUE, num |-> comp_num,
            data |-> Slice(stream, off, off + payload_size),
            consumed |-> payload_size]

\* (port, data_bytes, payload_size), or (None, None, 0)
ParseItmPacket(header, off, stream) ==
  LET port       == (header \div 8) % 32
      size_field == (header \div 2) % 4
      payload_size == <<1, 2, 4>>[size_field + 1]
  IN  IF header % 2 = 0 THEN NoPacket
      ELSE IF size_field = 3 THEN NoPacket
      ELSE IF off + payload_size > Len(stream) THEN NoPacket
      ELSE [ok |-> TRUE, num |-> port,
            data |-> Slice(stream, off, off + payload_size),
            consumed |-> payload_size]

\* the inner loop of the synchronization branch: skip the 0x00 bytes at off
RECURSIVE SkipZeros(_, _)
SkipZeros(stream, off) ==
  IF off < Len(stream) /\ stream[off + 1] = 0
  THEN SkipZeros(stream, off + 1) ELSE off

\* DwtEmit with the cursor advanced, after a reassembly, by the bytes needed
\* less the bytes already counted
DwtEmit_m(stream, off, pkt, expected) ==
  LET bytes_needed == expected - Len(pkt.data)
      extend == /\ Len(pkt.data) < expected
                /\ off + pkt.consumed + bytes_needed <= Len(stream)
      data_bytes == IF extend
                    THEN Slice(stream, off, off + pkt.consumed + bytes_needed)
                    ELSE pkt.data
      consumed == IF extend THEN bytes_needed - pkt.consumed ELSE pkt.consumed
  IN  [emit |-> Len(data_bytes) >= expected,
       payload |-> Slice(data_bytes, 0, expected),
       consumed |-> consumed]

\* the mapped-comparator part of the DWT branch: the reassembly, the emit
\* and the bytes the cursor advances by
DwtEmit(stream, off, pkt, expected) ==
  LET bytes_needed == expected - Len(pkt.data)
      extend == /\ Len(pkt.data) < expected
                /\ off + pkt.consumed + bytes_needed <= Len(stream)
      data_bytes == IF extend
                    THEN Slice(stream, off, off + pkt.consumed + bytes_needed)
                    ELSE pkt.data
      consumed == IF extend THEN bytes_needed ELSE pkt.consumed
  IN  [emit |-> Len(data_bytes) >= expected,
       payload |-> Slice(data_bytes, 0, expected),
       consumed |-> consumed]

\* one iteration of the while loop, from the state st = [offset, region_data,
\* overflow_warnings] with st.offset < Len(stream)
ParseStep(stream, cmap, regs, st) ==
  LET header == stream[st.offset + 1]
      off    == st.offset + 1
      skip   == [st EXCEPT !.offset = off]
  IN  IF header = 0 THEN skip
      ELSE IF header = 128 THEN [st EXCEPT !.offset = SkipZeros(stream, off)]
      ELSE IF header \div 16 = 12 \/ header \div 16 = 7 THEN skip
      ELSE IF header = 112
        THEN [skip EXCEPT !.overflow_warnings = @ + 1]
      ELSE IF (header \div 4) % 2 = 1
        THEN LET pkt == ParseDwtPacket(header, off, stream)
             IN  IF pkt.ok /\ pkt.data # <<>>
                 THEN IF pkt.num \in DOMAIN cmap /\ cmap[pkt.num] \in DOMAIN regs
                      THEN LET name == cmap[pkt.num]
                               e    == DwtEmit(stream, off, pkt, regs[name])
                           IN  [st EXCEPT
                                  !.offset = off + e.consumed,
                                  !.region_data =
                                     IF e.emit THEN DictAppend(@, name, e.payload)
                                     ELSE @]
                      ELSE [st EXCEPT !.offset = off + pkt.consumed]
                 ELSE skip
      ELSE IF header % 2 = 1
        THEN LET pkt == ParseItmPacket(header, off, stream)
             IN  IF pkt.ok /\ pkt.data # <<>>
                 THEN [st EXCEPT !.offset = off + pkt.consumed]
                 ELSE skip
      ELSE skip

ScanStart == [offset |-> 0, region_data |-> EmptyDict, overflow_warnings |-> 0]

RECURSIVE ScanFrom(_, _, _, _)
ScanFrom(stream, cmap, regs, st) ==
  IF st.offset < Len(stream)
  THEN ScanFrom(stream, cmap, regs, ParseStep(stream, cmap, regs, st))
  ELSE st

\* _parse_trace_packets(trace_stream): the region_data it returns
ParseTracePackets(stream, cmap, regs) ==
  ScanFrom(stream, cmap, regs, ScanStart).region_data

----------------------------------------------------------------------------
(***************************************************************************)
(* The transport.  A command sent to the debug-probe server is answered    *)
(* ("none": no fault), answered with an error reply ("nak": a register     *)
(* read then yields 0, a memory read no bytes, a write is not performed    *)
(* and _write_memory returns False), or fails with an exception ("raise"). *)
(* One call of start(), stop() or _read_etb_buffer() meets at most one     *)
(* fault, at its at-th transport command.                                  *)
(***************************************************************************)
NoFault == [at |-> 0, kind |-> "none"]

Faults(n) == {NoFault} \cup [at : 1..n, kind : {"nak", "raise"}]

Raises(fault, i) == fault.kind = "raise" /\ fault.at = i
Naks(fault, i)   == fault.kind = "nak" /\ fault.at = i

\* _read_register: the 32-bit value, 0 when the read returns no data
ReadRegister(value, fault, i) == IF Naks(fault, i) THEN 0 ELSE value

\* _read_memory(ETB_RAM + 4 * word, 4 * n): the words of the buffer RAM at
\* word .. word + n - 1, as far as the target returns them
ReadMemory(ram, word, n) == SubSeq(ram, word + 1, Min(word + n, Len(ram)))

----------------------------------------------------------------------------
(***************************************************************************)
(* The buffer drain: _detect_etb_buffer_size and _read_etb_buffer.         *)
(***************************************************************************)
ETB_BUFFER_SIZE == 2048
DepthLimit      == 65536

\* DetectEtbBufferSize with a depth of DepthLimit words accepted
DetectEtbBufferSize_m(depth_words) ==
  IF depth_words > 0 /\ depth_words <= DepthLimit
  THEN depth_words * 4 ELSE ETB_BUFFER_SIZE

\* depth_words is what the RWD register read returned
DetectEtbBufferSize(depth_words) ==
  IF depth_words > 0 /\ depth_words < DepthLimit
  THEN depth_words * 4 ELSE ETB_BUFFER_SIZE

\* _detect_etb_buffer_size, its register read being transport command i and
\* rwd what the RWD register holds: a raising read is caught and gives the
\* default size
DetectEtbBufferSizeAt(rwd, fault, i) ==
  IF Raises(fault, i) THEN ETB_BUFFER_SIZE
  ELSE DetectEtbBufferSize(ReadRegister(rwd, fault, i))

\* EtbRequests with the two chunks of the wrap-around case read in the other
\* order
EtbRequests_m(rrp, rwp, size) ==
  LET buffer_size_words == size \div 4
      words_to_end      == buffer_size_words - rrp
  IN  IF rwp > rrp
      THEN << [word |-> rrp, n |-> rwp - rrp] >>
      ELSE (IF rwp > 0 THEN << [word |-> 0, n |-> rwp] >> ELSE << >>)
           \o (IF words_to_end > 0
               THEN << [word |-> rrp, n |-> words_to_end] >> ELSE << >>)

\* the memory reads of one drain, in order: [word, n] is a read of n words
\* from word offset `word` of the buffer RAM
EtbRequests(rrp, rwp, size) ==
  LET buffer_size_words == size \div 4
      words_to_end      == buffer_size_words - rrp
  IN  IF rwp > rrp
      THEN << [word |-> rrp, n |-> rwp - rrp] >>
      ELSE (IF words_to_end > 0
            THEN << [word |-> rrp, n |-> words_to_end] >> ELSE << >>)
           \o (IF rwp > 0 THEN << [word |-> 0, n |-> rwp] >> ELSE << >>)

RECURSIVE ReadChunks(_, _, _, _, _)
\* the chunks read for reqs[i..], the i-th memory read being transport
\* command number first + i; a raising read ends the drain with what was
\* collected before it
ReadChunks(ram, reqs, i, first, fault) ==
  IF i > Len(reqs) \/ Raises(fault, first + i) THEN << >>
  ELSE (IF Naks(fault, first + i) THEN << >>
        ELSE ReadMemory(ram, reqs[i].word, reqs[i].n))
       \o ReadChunks(ram, reqs, i + 1, first, fault)

\* _read_etb_buffer: sts, rrp and rwp are the values the ETB registers hold,
\* ram the buffer RAM.  Commands: 1 read STS, 2 read RRP, 3 read RWP, then
\* the memory reads, then the write of RRP.  Returns the words of the
\* stream, the pointers it saw, and whether (and to what) RRP was written.
ReadEtbBuffer(sts, rrp, rwp, size, ram, fault) ==
  LET sts_v == ReadRegister(sts, fault, 1)
      rrp_v == ReadRegister(rrp, fault, 2)
      rwp_v == ReadRegister(rwp, fault, 3)
      reqs  == EtbRequests(rrp_v, rwp_v, size)
      nreq  == Len(reqs)
      none  == [words |-> << >>, sts |-> sts_v, rrp |-> rrp_v, rwp |-> rwp_v,
                reqs |-> << >>, wrote |-> FALSE, complete |-> FALSE]
      read_raised == \E i \in 1..nreq : Raises(fault, 3 + i)
      \* in the no-wrap branch the stream is assigned only after the read
      words == IF rwp_v > rrp_v /\ read_raised THEN << >>
               ELSE ReadChunks(ram, reqs, 1, 3, fault)
  IN  IF Raises(fault, 1) THEN none
      ELSE IF sts_v % 2 = 0 THEN none
      ELSE IF Raises(fault, 2) \/ Raises(fault, 3) THEN none
      ELSE IF rrp_v = rwp_v THEN none
      ELSE [words |-> words, sts |-> sts_v, rrp |-> rrp_v, rwp |-> rwp_v,
            reqs |-> reqs,
            wrote |-> ~read_raised /\ fault.at # 3 + nreq + 1,
            complete |-> ~read_raised]

\* the transport commands a drain can issue at most
MaxDrainOps == 3 + 2 + 1

RECURSIVE Flatten(_)
Flatten(words) ==
  IF words = << >> THEN << >> ELSE Head(words) \o Flatten(Tail(words))

----------------------------------------------------------------------------
(***************************************************************************)
(* Trace configuration: _configure_trace_infrastructure,                   *)
(* _configure_dwt_comparator, and start().                                 *)
(*                                                                         *)
(* A register is named by its symbol and, for the per-comparator blocks,   *)
(* the comparator index.  hw holds the registers the teardown is about:    *)
(* the sink's control register and the comparators' function registers.    *)
(***************************************************************************)
FUNC_DISABLED      == 0
FUNC_DATA_VALUE_RW == 7
NumComparators     == 4

Reg(name, idx) == <<name, idx>>

TrackedRegs == {Reg("ETB_CTL", 0)} \cup {Reg("DWT_FUNCTION0", i) : i \in 0..3}

\* the register writes of _configure_trace_infrastructure, in order; ctrl is
\* the value read from DWT_CTRL
InfraWrites(ctrl) ==
  << [reg |-> Reg("DWT_CTRL", 0),  val |-> ctrl - (ctrl % 2) + 1],
     [reg |-> Reg("ITM_TCR", 0),   val |-> 65541],
     [reg |-> Reg("ITM_TER", 0),   val |-> -1],       \* 0xFFFFFFFF
     [reg |-> Reg("TPIU_SPPR", 0), val |-> 2],
     [reg |-> Reg("TPIU_ACPR", 0), val |-> 0],
     [reg |-> Reg("TPIU_FFCR", 0), val |-> 256],
     [reg |-> Reg("ETB_CTL", 0),   val |-> 0],
     [reg |-> Reg("ETB_FFCR", 0),  val |-> 0],
     [reg |-> Reg("ETB_RWP", 0),   val |-> 0],
     [reg |-> Reg("ETB_RRP", 0),   val |-> 0],
     [reg |-> Reg("ETB_CTL", 0),   val |-> 1] >>

RECURSIVE Log2Floor(_)
Log2Floor(n) == IF n < 2 THEN 0 ELSE 1 + Log2Floor(n \div 2)

ComparatorMask(byte_count) ==
  IF byte_count > 1 THEN Max(0, Log2Floor(byte_count) - 1) ELSE 0

\* the register writes of _configure_dwt_comparator(comp_idx, region); the
\* region's address is not part of the model
ComparatorWrites(comp_idx, byte_count) ==
  << [reg |-> Reg("DWT_COMP0", comp_idx),     val |-> 0],
     [reg |-> Reg("DWT_MASK0", comp_idx),     val |-> ComparatorMask(byte_count)],
     [reg |-> Reg("DWT_FUNCTION0", comp_idx), val |-> FUNC_DATA_VALUE_RW] >>

\* the registers after the writes ws, issued as transport commands
\* first + 1, first + 2, ...: a nak'd write is not performed, a raising one
\* ends the sequence
RECURSIVE ApplyWrites(_, _, _, _)
ApplyWrites(h, ws, first, fault) ==
  IF ws = << >> \/ Raises(fault, first + 1) THEN h
  ELSE LET w  == Head(ws)
           h1 == IF w.reg \in DOMAIN h /\ ~Naks(fault, first + 1)
                 THEN [h EXCEPT ![w.reg] = w.val] ELSE h
       IN  ApplyWrites(h1, Tail(ws), first + 1, fault)

\* Assignable with the loop of start() stopping one region later
Assignable_m(regs) == Min(Len(regs), NumComparators + 1)

\* how many regions the loop of start() gives a comparator
Assignable(regs) == Min(Len(regs), NumComparators)

RECURSIVE AllComparatorWrites(_, _)
\* the writes of comparators idx, idx + 1, ... below the comparator limit
AllComparatorWrites(regs, idx) ==
  IF idx >= Assignable(regs) THEN << >>
  ELSE ComparatorWrites(idx, regs[idx + 1]) \o AllComparatorWrites(regs, idx + 1)

\* the transport commands of _configure_trace_infrastructure: the reads of
\* RWD and DWT_CTRL, then its writes
NumInfraOps == 2 + Len(InfraWrites(0))

NumStartOps(regs) == NumInfraOps + 3 * Assignable(regs)

\* start() after a successful connect.  s is the parser's state, depth and
\* ctrl what the RWD and DWT_CTRL registers hold.  Returns the new state
\* with launched (the rx thread was started) and outcome.
ConfigureAndLaunch(s, regs, depth, ctrl, fault) ==
  LET size == DetectEtbBufferSizeAt(depth, fault, 1)
      infra_raised == fault.kind = "raise" /\ fault.at \in 2..NumInfraOps
      hw1 == IF Raises(fault, 2) THEN s.hw
             ELSE ApplyWrites(s.hw, InfraWrites(ReadRegister(ctrl, fault, 2)), 2, fault)
      comp_raised == fault.kind = "raise" /\ fault.at > NumInfraOps
      \* comparators whose three writes were all issued without an exception
      ndone == IF comp_raised THEN (fault.at - NumInfraOps - 1) \div 3
               ELSE Assignable(regs)
      hw2 == ApplyWrites(hw1, AllComparatorWrites(regs, 0), NumInfraOps, fault)
      map2 == [c \in DOMAIN s.comparator_map \cup 0..(ndone - 1) |->
                 IF c < ndone THEN c + 1 ELSE s.comparator_map[c]]
  IN  IF infra_raised
      THEN [s EXCEPT !.etb_buffer_size = size, !.hw = hw1,
                     !.is_running = TRUE, !.launched = TRUE, !.outcome = "ok"]
      ELSE IF comp_raised
      THEN [s EXCEPT !.etb_buffer_size = size, !.hw = hw2,
                     !.comparator_map = map2,
                     !.launched = FALSE, !.outcome = "TransportError"]
      ELSE [s EXCEPT !.etb_buffer_size = size, !.hw = hw2,
                     !.comparator_map = map2, !.trace_configured = TRUE,
                     !.is_running = TRUE, !.launched = TRUE, !.outcome = "ok"]

\* StartEffect with the trace hardware configured before the result of the
\* connect is looked at
StartEffect_m(s, regs, connect_ok, depth, ctrl, fault) ==
  IF ~connect_ok
  THEN [ConfigureAndLaunch(s, regs, depth, ctrl, fault) EXCEPT
          !.is_running = s.is_running, !.launched = FALSE,
          !.outcome = "ConnectionError"]
  ELSE ConfigureAndLaunch(s, regs, depth, ctrl, fault)

\* start(): connect_ok is what _connect_gdb returns
StartEffect(s, regs, connect_ok, depth, ctrl, fault) ==
  IF ~connect_ok
  THEN [s EXCEPT !.launched = FALSE, !.outcome = "ConnectionError"]
  ELSE ConfigureAndLaunch(s, regs, depth, ctrl, fault)

\* stop(): one write per assigned comparator, in the table's order, then the
\* write that disables the sink when trace is configured, then the parent's
\* stop, which clears the running flag
StopEffect(s, fault) ==
  LET keys == DOMAIN s.comparator_map
      nkeys == Cardinality(keys)
      Rank(c) == Cardinality({k \in keys : k <= c})
      raised == fault.kind = "raise" /\ fault.at <= nkeys + (IF s.trace_configured THEN 1 ELSE 0)
      Issued(i) == ~raised \/ i < fault.at
      hw1 == [r \in DOMAIN s.hw |->
                IF /\ r[1] = "DWT_FUNCTION0" /\ r[2] \in keys
                   /\ Issued(Rank(r[2])) /\ ~Naks(fault, Rank(r[2]))
                  THEN FUNC_DISABLED
                ELSE IF /\ r[1] = "ETB_CTL" /\ s.trace_configured
                        /\ Issued(nkeys + 1) /\ ~Naks(fault, nkeys + 1)
                  THEN 0
                ELSE s.hw[r]]
  IN  IF raised
      THEN [s EXCEPT !.hw = hw1, !.launched = FALSE, !.outcome = "TransportError"]
      ELSE [s EXCEPT !.hw = hw1, !.comparator_map = [c \in {} |-> 0],
                     !.trace_configured = FALSE, !.is_running = FALSE,
                     !.launched = FALSE, !.outcome = "ok"]

----------------------------------------------------------------------------
(***************************************************************************)
(* receive(): the polling cycle of the parent class and the trace path.    *)
(***************************************************************************)
RECURSIVE ZeroBytes(_)
ZeroBytes(n) == IF n = 0 THEN << >> ELSE <<0>> \o ZeroBytes(n - 1)

Packet(raw, via) == [raw |-> raw, via |-> via]

\* the parent's receive(): one memory read per region; ok is the set of
\* regions whose read succeeds, the others are logged and skipped
PollReceive(q, regs, ok) ==
  [r \in DOMAIN q |->
     IF r \in ok THEN Append(q[r], Packet(ZeroBytes(regs[r]), "poll")) ELSE q[r]]

\* the loop of receive() over region_data: a payload is enqueued when its
\* region exists and its length is the region's byte count
EnqueueTrace(q, regs, rd) ==
  [r \in DOMAIN q |->
     IF r \in DOMAIN rd /\ r \in DOMAIN regs
     THEN LET Fits(p) == Len(p) = regs[r]
              kept == SelectSeq(rd[r], Fits)
          IN  q[r] \o [i \in 1..Len(kept) |-> Packet(kept[i], "trace")]
     ELSE q[r]]

\* TraceReceive with the packet built from trace_stream instead of payload
TraceReceive_m(q, regs, cmap, stream, random_poll, ok) ==
  IF stream # << >>
  THEN LET rd == ParseTracePackets(stream, cmap, regs)
       IN  [r \in DOMAIN q |->
              IF r \in DOMAIN rd /\ r \in DOMAIN regs
              THEN LET Fits(p) == Len(p) = regs[r]
                       kept == SelectSeq(rd[r], Fits)
                   IN  q[r] \o [i \in 1..Len(kept) |-> Packet(stream, "trace")]
              ELSE q[r]]
  ELSE IF random_poll THEN PollReceive(q, regs, ok) ELSE q

\* the try block of receive(): stream is what _read_etb_buffer returned,
\* random_poll whether random.random() < 0.1
TraceReceive(q, regs, cmap, stream, random_poll, ok) ==
  IF stream # << >>
  THEN EnqueueTrace(q, regs, ParseTracePackets(stream, cmap, regs))
  ELSE IF random_poll THEN PollReceive(q, regs, ok) ELSE q

\* Receive with an except handler that logs the error and does not poll
Receive_m(q, regs, cmap, configured, stream, random_poll, ok, exc) ==
  IF ~configured THEN [q |-> PollReceive(q, regs, ok), polls |-> 1]
  ELSE IF exc THEN [q |-> q, polls |-> 0]
  ELSE [q |-> TraceReceive(q, regs, cmap, stream, random_poll, ok),
        polls |-> IF stream = << >> /\ random_poll THEN 1 ELSE 0]

\* receive(): stream is what _read_etb_buffer returns when the trace path
\* calls it; exc says that the try block raises once the drain has returned
\* and before a packet is enqueued, which takes receive() to its except
\* handler.  Returns the queues and the number of polling cycles run.
Receive(q, regs, cmap, configured, stream, random_poll, ok, exc) ==
  IF ~configured THEN [q |-> PollReceive(q, regs, ok), polls |-> 1]
  ELSE IF exc THEN [q |-> PollReceive(q, regs, ok), polls |-> 1]
  ELSE [q |-> TraceReceive(q, regs, cmap, stream, random_poll, ok),
        polls |-> IF stream = << >> /\ random_poll THEN 1 ELSE 0]

----------------------------------------------------------------------------
(***************************************************************************)
(* Inputs of the life-cycle model.                                         *)
(***************************************************************************)
\* byte count of the region at position i
RegionBytesAt(i) == IF i = 2 THEN 2 ELSE 4

SysRegions(n) == [i \in 1..n |-> RegionBytesAt(i)]

\* values the RWD register holds when start() reads it: a depth of three
\* words (a failed read gives the default size)
DepthValues == {3}

\* the transport commands of start() at which the model lets a fault happen:
\* the two reads, the first write, the two writes of the sink's control
\* register, and every comparator's first and last write
StartFaultPoints(regs) ==
  {1, 2, 3, NumInfraOps - 4, NumInfraOps}
  \cup {NumInfraOps + 3 * c + k : c \in 0..(Assignable(regs) - 1), k \in {1, 3}}

StartFaults(regs) ==
  {f \in Faults(NumStartOps(regs)) : f.at = 0 \/ f.at \in StartFaultPoints(regs)}

\* the inputs of one start() call: whether _connect_gdb succeeds and, when it
\* does, what the RWD register holds and the fault the call meets
StartInputs(regs) ==
  [connect_ok : {FALSE}, depth : DepthValues, fault : {NoFault}]
  \cup [connect_ok : {TRUE}, depth : DepthValues, fault : StartFaults(regs)]

\* contents of the ETB RAM: idle bytes; a packet of comparator 0 followed by
\* a packet of comparator 1 and idle bytes
RamImages ==
  { << <<0, 0, 0, 0>>, <<0, 0, 0, 0>> >>,
    << <<12, 1, 2, 3>>, <<4, 13, 5, 6>>, <<7, 8, 0, 0>> >> }

\* the ETB as a drain finds it
EtbInputs ==
  [sts : {0, 1}, rrp : 0..2, rwp : 0..3, ram : RamImages, fault : Faults(MaxDrainOps)]

\* buffer sizes start() can detect from DepthValues
EtbSizes == {DetectEtbBufferSize(d) : d \in DepthValues} \cup {ETB_BUFFER_SIZE}

\* the byte streams _read_etb_buffer returns over EtbInputs, per buffer size
DrainStreams ==
  [size \in EtbSizes |->
     {Flatten(ReadEtbBuffer(in.sts, in.rrp, in.rwp, size, in.ram, in.fault).words) :
        in \in EtbInputs}]

\* outcomes of a polling cycle, as the set of regions whose read succeeds:
\* all of them, none, all but the first, all but the last
PollOutcomes(regs) ==
  LET all == 1..Len(regs)
  IN  {all, {}, all \ {1}, all \ {Len(regs)}}

NoCall == [op |-> "none", outcome |-> "ok", faulted |-> FALSE, launched |-> FALSE]

NoDrain == [words |-> << >>, sts |-> 0, rrp |-> 0, rwp |-> 0, reqs |-> << >>,
            wrote |-> FALSE, complete |-> FALSE, fault |-> NoFault, calls |-> 0]

\* the parser's fields as the record the effects work on
SysState ==
  [comparator_map |-> comparator_map, trace_configured |-> trace_configured,
   etb_buffer_size |-> etb_buffer_size, is_running |-> is_running, hw |-> hw,
   launched |-> FALSE, outcome |-> "ok"]

ParseIdle ==
  /\ trace_stream = << >> /\ offset = 0 /\ region_data = EmptyDict
  /\ overflow_warnings = 0 /\ iters = 0 /\ ppc = "idle"

DrainIdle ==
  etb = [sts |-> 0, rrp |-> 0, rwp |-> 0, captures |-> 0] /\ drained = NoDrain

NoReceive == [exc |-> FALSE, polls |-> 0]

ThreadsIdle ==
  /\ stop_pc = [pc |-> "idle", keys |-> << >>, sink |-> FALSE]
  /\ rx_cmds = 0
  /\ wire = << >>

NoDetect == [depth |-> 0, fault |-> NoFault, size |-> 0, pc |-> "idle"]

AuxIdle == detect = NoDetect /\ cycles = << >>

\* __init__: the state of a new parser
Constructed ==
  /\ comparator_map = [c \in {} |-> 0]
  /\ trace_configured = FALSE
  /\ etb_buffer_size = ETB_BUFFER_SIZE
  /\ is_running = FALSE
  /\ rx = << >>
  /\ rxq = [r \in 1..Len(regions) |-> << >>]
  /\ hw = [r \in TrackedRegs |-> 0]
  /\ last_call = NoCall
  /\ ncalls = 0
  /\ last_stream = "none"
  /\ last_recv = NoReceive

----------------------------------------------------------------------------
(***************************************************************************)
(* The life cycle: start(), stop(), the rx thread, the consumer.           *)
(***************************************************************************)
Init ==
  /\ regions \in {SysRegions(n) : n \in 1..MaxRegions}
  /\ Constructed
  /\ ParseIdle
  /\ DrainIdle
  /\ ThreadsIdle
  /\ AuxIdle

SetState(s) ==
  /\ comparator_map' = s.comparator_map
  /\ trace_configured' = s.trace_configured
  /\ etb_buffer_size' = s.etb_buffer_size
  /\ is_running' = s.is_running
  /\ hw' = s.hw

Start ==
  /\ ncalls < MaxCalls
  /\ \E in \in StartInputs(regions) :
       LET s == StartEffect(SysState, regions, in.connect_ok, in.depth, 0, in.fault)
       IN  /\ SetState(s)
           /\ rx' = IF s.launched THEN Append(rx, "check") ELSE rx
           /\ last_call' = [op |-> "start", outcome |-> s.outcome,
                            faulted |-> in.connect_ok /\ in.fault.kind # "none",
                            launched |-> s.launched]
  /\ ncalls' = ncalls + 1
  /\ UNCHANGED <<regions, rxq, last_stream, last_recv, parsevars, drainvars, threadvars, auxvars>>

Stop ==
  /\ ncalls < MaxCalls
  /\ \E fault \in Faults(NumComparators + 1) :
       LET s == StopEffect(SysState, fault)
       IN  /\ SetState(s)
           /\ last_call' = [op |-> "stop", outcome |-> s.outcome,
                            faulted |-> fault.kind # "none", launched |-> FALSE]
  /\ ncalls' = ncalls + 1
  /\ UNCHANGED <<regions, rx, rxq, last_stream, last_recv, parsevars, drainvars, threadvars, auxvars>>

\* the rx thread evaluates `while self.is_running`
RxCheck(w) ==
  /\ w \in DOMAIN rx /\ rx[w] = "check"
  /\ rx' = [rx EXCEPT ![w] = IF is_running THEN "recv" ELSE "done"]
  /\ UNCHANGED <<regions, comparator_map, trace_configured, etb_buffer_size,
                 is_running, rxq, hw, last_call, ncalls, last_stream, last_recv,
                 parsevars, drainvars, threadvars, auxvars>>

\* the drained stream of the receive() calls whose try block raises: what the
\* except handler does is the same for every stream
RaisingStream == <<0, 0, 0, 0>>

\* the inputs of one receive() call: the stream the drain returns (none in
\* polling mode), whether the try block raises after a drain that returned
\* data, and the inputs of the polling cycle where one can happen
ReceiveInputs ==
  IF ~trace_configured
  THEN [stream : {<< >>}, random_poll : {FALSE}, ok : PollOutcomes(regions),
        exc : {FALSE}]
  ELSE [stream : DrainStreams[etb_buffer_size] \ {<< >>},
        random_poll : {FALSE}, ok : {{}}, exc : {FALSE}]
       \cup [stream : {RaisingStream}, random_poll : {FALSE},
             ok : PollOutcomes(regions), exc : {TRUE}]
       \cup [stream : {<< >>}, random_poll : BOOLEAN, ok : PollOutcomes(regions),
             exc : {FALSE}]

\* the rx thread runs receive() and sleeps
RxReceive(w) ==
  /\ w \in DOMAIN rx /\ rx[w] = "recv"
  /\ \E in \in ReceiveInputs :
       LET res == Receive(rxq, regions, comparator_map, trace_configured,
                          in.stream, in.random_poll, in.ok, in.exc)
           q   == res.q
       IN  /\ \A r \in DOMAIN q : Len(q[r]) <= MaxQueue
           /\ rxq' = q
           /\ last_recv' = IF in.exc THEN [exc |-> TRUE, polls |-> res.polls]
                            ELSE NoReceive
           /\ last_stream' = IF ~trace_configured THEN "none"
                             ELSE IF in.stream = << >> THEN "empty" ELSE "data"
  /\ rx' = [rx EXCEPT ![w] = "check"]
  /\ UNCHANGED <<regions, comparator_map, trace_configured, etb_buffer_size,
                 is_running, hw, last_call, ncalls, parsevars, drainvars, threadvars, auxvars>>

\* the consumer takes the oldest packet of a region's queue
Pop(r) ==
  /\ r \in DOMAIN rxq /\ rxq[r] # << >>
  /\ rxq' = [rxq EXCEPT ![r] = Tail(@)]
  /\ UNCHANGED <<regions, comparator_map, trace_configured, etb_buffer_size,
                 is_running, rx, hw, last_call, ncalls, last_stream, last_recv,
                 parsevars, drainvars, threadvars, auxvars>>

Next ==
  \/ Start
  \/ Stop
  \/ \E w \in 1..MaxCalls : RxCheck(w)
  \/ \E w \in 1..MaxCalls : RxReceive(w)
  \/ \E r \in 1..MaxRegions : Pop(r)

Spec == Init /\ [][Next]_vars

\* the rx threads are scheduled fairly
FairSpec ==
  /\ Spec
  /\ \A w \in 1..MaxCalls : WF_vars(RxCheck(w)) /\ WF_vars(RxReceive(w))

----------------------------------------------------------------------------
(***************************************************************************)
(* The packet scan on its own: parse_packets over bounded streams, one     *)
(* loop iteration per step.                                                *)
(***************************************************************************)
\* header and payload bytes the streams are drawn over: idle, sync, a DWT
\* header with discriminator 0, one with discriminator 1 (comparator 0), a
\* stimulus header, the overflow header
StreamBytes == {0, 128, 4, 12, 171, 112}

ByteCounts == {1, 2, 4, 5}

Payloads ==
  {<<171>>, <<1, 2>>, <<1, 2, 3, 4>>, <<171, 205, 239, 1>>, <<1, 2, 3, 4, 5>>}

\* streams holding one packet: a header with bit 2 set, then a payload
SinglePackets ==
  {<<h>> \o p : h \in {b \in 0..255 : (b \div 4) % 2 = 1}, p \in Payloads}

ParseStreams == SeqsUpTo(StreamBytes, MaxStreamLen) \cup SinglePackets

ParseRegionConfigs == SeqsUpTo(ByteCounts, MaxParseRegions) \ {<< >>}

\* the table start() builds for the regions when no write raises
AssignedMap(regs) == [c \in 0..(Assignable(regs) - 1) |-> c + 1]

InitParse ==
  /\ regions \in ParseRegionConfigs
  /\ comparator_map = AssignedMap(regions)
  /\ trace_configured = TRUE
  /\ etb_buffer_size = ETB_BUFFER_SIZE
  /\ is_running = FALSE
  /\ rx = << >>
  /\ rxq = [r \in 1..Len(regions) |-> << >>]
  /\ hw = [r \in TrackedRegs |-> 0]
  /\ last_call = NoCall
  /\ ncalls = 0
  /\ last_stream = "none"
  /\ last_recv = NoReceive
  /\ trace_stream \in ParseStreams
  /\ offset = 0 /\ region_data = EmptyDict /\ overflow_warnings = 0
  /\ iters = 0 /\ ppc = "scan"
  /\ DrainIdle
  /\ ThreadsIdle
  /\ AuxIdle

\* one iteration of `while offset < len(trace_stream)`
ParseIter ==
  /\ ppc = "scan" /\ offset < Len(trace_stream)
  /\ LET st == ParseStep(trace_stream, comparator_map, regions,
                         [offset |-> offset, region_data |-> region_data,
                          overflow_warnings |-> overflow_warnings])
     IN  /\ offset' = st.offset
         /\ region_data' = st.region_data
         /\ overflow_warnings' = st.overflow_warnings
  /\ iters' = iters + 1
  /\ UNCHANGED <<regions, sysvars, trace_stream, ppc, drainvars, threadvars, auxvars>>

\* the loop condition fails: return region_data
ParseReturn ==
  /\ ppc = "scan" /\ offset >= Len(trace_stream)
  /\ ppc' = "done"
  /\ UNCHANGED <<regions, sysvars, trace_stream, offset, region_data,
                 overflow_warnings, iters, drainvars, threadvars, auxvars>>

NextParse == ParseIter \/ ParseReturn

SpecParse == InitParse /\ [][NextParse]_vars

\* the scan is not suspended: it runs in one call of the rx thread
FairSpecParse == SpecParse /\ WF_vars(NextParse)

----------------------------------------------------------------------------
(***************************************************************************)
(* The buffer drain on its own: _read_etb_buffer against an ETB whose RAM  *)
(* word at offset i holds i, so that a drained word names where it was     *)
(* read.                                                                   *)
(***************************************************************************)
DrainRam(size) == [i \in 1..Max(size \div 4, MaxPtr + 1) |-> i - 1]

\* depths the RWD register reported when the buffer size was detected
DrainDepths == {MaxBufWords \div 2, MaxBufWords}

InitDrain ==
  /\ regions = SysRegions(1)
  /\ comparator_map = AssignedMap(regions)
  /\ trace_configured = TRUE
  /\ etb_buffer_size \in {DetectEtbBufferSize(d) : d \in DrainDepths}
  /\ is_running = FALSE
  /\ rx = << >>
  /\ rxq = [r \in 1..Len(regions) |-> << >>]
  /\ hw = [r \in TrackedRegs |-> 0]
  /\ last_call = NoCall
  /\ ncalls = 0
  /\ last_stream = "none"
  /\ last_recv = NoReceive
  /\ ParseIdle
  /\ etb \in [sts : {0, 1}, rrp : 0..MaxPtr, rwp : 0..MaxPtr, captures : {0}]
  /\ drained = NoDrain
  /\ ThreadsIdle
  /\ AuxIdle

\* one call of _read_etb_buffer
Drain ==
  /\ drained.calls < MaxDrains
  /\ \E fault \in Faults(MaxDrainOps) :
       LET d == ReadEtbBuffer(etb.sts, etb.rrp, etb.rwp, etb_buffer_size,
                              DrainRam(etb_buffer_size), fault)
       IN  /\ drained' = [words |-> d.words, sts |-> d.sts, rrp |-> d.rrp,
                          rwp |-> d.rwp, reqs |-> d.reqs, wrote |-> d.wrote,
                          complete |-> d.complete, fault |-> fault,
                          calls |-> drained.calls + 1]
           /\ etb' = IF d.wrote THEN [etb EXCEPT !.rrp = d.rwp] ELSE etb
  /\ UNCHANGED <<regions, sysvars, parsevars, threadvars, auxvars>>

\* the trace hardware writes a word at the write pointer
HwCapture ==
  /\ etb.captures < MaxCaptures
  /\ etb' = [etb EXCEPT !.rwp = (etb.rwp + 1) % (MaxPtr + 1), !.sts = 1,
                        !.captures = @ + 1]
  /\ UNCHANGED <<regions, sysvars, parsevars, drained, threadvars, auxvars>>

NextDrain == Drain \/ HwCapture

SpecDrain == InitDrain /\ [][NextDrain]_vars

----------------------------------------------------------------------------
(***************************************************************************)
(* The buffer size detection on its own: _detect_etb_buffer_size over the  *)
(* values of the RWD register and the faults of its one register read.     *)
(***************************************************************************)
DetectDepths ==
  0..MaxDepth \cup {512, DepthLimit - 1, DepthLimit, DepthLimit + 1}

InitDetect ==
  /\ regions = SysRegions(1)
  /\ Constructed
  /\ ParseIdle
  /\ DrainIdle
  /\ ThreadsIdle
  /\ cycles = << >>
  /\ detect \in [depth : DetectDepths, fault : Faults(1), size : {0}, pc : {"call"}]

\* one call of _detect_etb_buffer_size, storing what it returns as
\* _configure_trace_infrastructure does
Detect ==
  /\ detect.pc = "call"
  /\ LET size == DetectEtbBufferSizeAt(detect.depth, detect.fault, 1)
     IN  /\ detect' = [detect EXCEPT !.size = size, !.pc = "done"]
         /\ etb_buffer_size' = size
  /\ UNCHANGED <<regions, comparator_map, trace_configured, is_running, rx, rxq,
                 hw, last_call, ncalls, last_stream, last_recv, parsevars,
                 drainvars, threadvars, cycles>>

NextDetect == Detect

SpecDetect == InitDetect /\ [][NextDetect]_vars

----------------------------------------------------------------------------
(***************************************************************************)
(* The threads on the connection: the thread that calls start() and        *)
(* stop(), and the rx thread, one transport command at a time.  A command  *)
(* is sent on the connection and its response read from it afterwards;     *)
(* wire holds the threads between the two.  The commands meet no fault in  *)
(* this part of the model.                                                 *)
(***************************************************************************)
InFlight(t) == \E i \in DOMAIN wire : wire[i] = t

\* the connection once thread t has read a response from it
Answered(t) == LET Other(x) == x # t IN SelectSeq(wire, Other)

\* the keys of the comparator table in the order the loop of stop() visits
\* them
RECURSIVE KeysInOrder(_)
KeysInOrder(keys) ==
  IF keys = {} THEN << >>
  ELSE LET first == CHOOSE k \in keys : \A j \in keys : k <= j
       IN  <<first>> \o KeysInOrder(keys \ {first})

\* the transport commands of one fault-free _read_etb_buffer
EtbCommandCount(sts, rrp, rwp, size) ==
  IF sts % 2 = 0 THEN 1
  ELSE IF rrp = rwp THEN 3
  ELSE 3 + Len(EtbRequests(rrp, rwp, size)) + 1

\* the transport commands one receive() can issue: one memory read per
\* region in a polling cycle; in trace mode those of the drain, and those of
\* a polling cycle after a drain that returned nothing
ReceiveCommandCounts ==
  IF ~trace_configured THEN {Len(regions)}
  ELSE {EtbCommandCount(in.sts, in.rrp, in.rwp, etb_buffer_size) : in \in EtbInputs}
       \cup {1 + Len(regions), 3 + Len(regions)}

InitThreads ==
  /\ regions \in {SysRegions(n) : n \in 1..MaxThreadRegions}
  /\ Constructed
  /\ ParseIdle
  /\ DrainIdle
  /\ ThreadsIdle
  /\ AuxIdle

\* the first start() of the parser: its commands are issued before the rx
\* thread exists
ThStart == ncalls = 0 /\ Start

\* the rx thread enters receive()
RxBegin(w) ==
  /\ w \in DOMAIN rx /\ rx[w] = "recv"
  /\ \E n \in ReceiveCommandCounts :
       /\ rx_cmds' = n
       /\ rx' = [rx EXCEPT ![w] = IF n = 0 THEN "check" ELSE "io"]
  /\ UNCHANGED <<regions, comparator_map, trace_configured, etb_buffer_size,
                 is_running, rxq, hw, last_call, ncalls, last_stream, last_recv,
                 parsevars, drainvars, stop_pc, wire, auxvars>>

\* the rx thread sends the next command of its receive()
RxSend(w) ==
  /\ w \in DOMAIN rx /\ rx[w] = "io" /\ rx_cmds > 0 /\ ~InFlight("rx")
  /\ wire' = Append(wire, "rx")
  /\ UNCHANGED <<regions, sysvars, parsevars, drainvars, stop_pc, rx_cmds,
                 auxvars>>

\* the rx thread reads a response; after the last one receive() returns
RxAnswer(w) ==
  /\ w \in DOMAIN rx /\ rx[w] = "io" /\ InFlight("rx")
  /\ wire' = Answered("rx")
  /\ rx_cmds' = rx_cmds - 1
  /\ rx' = [rx EXCEPT ![w] = IF rx_cmds = 1 THEN "check" ELSE "io"]
  /\ UNCHANGED <<regions, comparator_map, trace_configured, etb_buffer_size,
                 is_running, rxq, hw, last_call, ncalls, last_stream, last_recv,
                 parsevars, drainvars, stop_pc, auxvars>>

\* a thread calls stop(): it is at the loop over the comparator table
StopBegin ==
  /\ stop_pc.pc = "idle" /\ ncalls = 1
  /\ stop_pc' = [pc |-> "writes", keys |-> KeysInOrder(DOMAIN comparator_map),
                 sink |-> trace_configured]
  /\ UNCHANGED <<regions, sysvars, parsevars, drainvars, rx_cmds, wire, auxvars>>

\* stop() sends its next register write: a comparator's function register,
\* then the sink's control register
StopSend ==
  /\ stop_pc.pc = "writes" /\ ~InFlight("stop")
  /\ stop_pc.keys # << >> \/ stop_pc.sink
  /\ wire' = Append(wire, "stop")
  /\ UNCHANGED <<regions, sysvars, parsevars, drainvars, stop_pc, rx_cmds,
                 auxvars>>

\* stop() reads the response of its write
StopAnswer ==
  /\ stop_pc.pc = "writes" /\ InFlight("stop")
  /\ wire' = Answered("stop")
  /\ IF stop_pc.keys # << >>
     THEN /\ hw' = [hw EXCEPT ![Reg("DWT_FUNCTION0", Head(stop_pc.keys))] =
                                FUNC_DISABLED]
          /\ stop_pc' = [stop_pc EXCEPT !.keys = Tail(@)]
     ELSE /\ hw' = [hw EXCEPT ![Reg("ETB_CTL", 0)] = 0]
          /\ stop_pc' = [stop_pc EXCEPT !.sink = FALSE]
  /\ UNCHANGED <<regions, comparator_map, trace_configured, etb_buffer_size,
                 is_running, rx, rxq, last_call, ncalls, last_stream, last_recv,
                 parsevars, drainvars, rx_cmds, auxvars>>

\* stop() clears the table and the flag and calls the parent's stop(), which
\* clears the running flag
StopFinish ==
  /\ stop_pc.pc = "writes" /\ stop_pc.keys = << >> /\ ~stop_pc.sink
  /\ ~InFlight("stop")
  /\ comparator_map' = [c \in {} |-> 0]
  /\ trace_configured' = FALSE
  /\ is_running' = FALSE
  /\ stop_pc' = [stop_pc EXCEPT !.pc = "done"]
  /\ last_call' = [op |-> "stop", outcome |-> "ok", faulted |-> FALSE,
                   launched |-> FALSE]
  /\ ncalls' = ncalls + 1
  /\ UNCHANGED <<regions, etb_buffer_size, rx, rxq, hw, last_stream, last_recv,
                 parsevars, drainvars, rx_cmds, wire, auxvars>>

NextThreads ==
  \/ ThStart
  \/ \E w \in 1..MaxCalls : RxCheck(w)
  \/ \E w \in 1..MaxCalls : RxBegin(w)
  \/ \E w \in 1..MaxCalls : RxSend(w)
  \/ \E w \in 1..MaxCalls : RxAnswer(w)
  \/ StopBegin
  \/ StopSend
  \/ StopAnswer
  \/ StopFinish

SpecThreads == InitThreads /\ [][NextThreads]_vars

----------------------------------------------------------------------------
(***************************************************************************)
(* Receive cycles against one ETB: the hardware writes the words of a      *)
(* trace, word by word, and each receive() of the rx thread drains what    *)
(* has been written since the previous drain, scans it and enqueues.       *)
(***************************************************************************)
\* the trace the hardware emits: a packet of comparator 0 with payload
\* 1 2 3 4, a rejected header, a packet of comparator 1 with payload
\* 5 6 7 8, idle bytes
TraceTape == << <<12, 1, 2, 3>>, <<4, 13, 5, 6>>, <<7, 8, 0, 0>> >>

\* the buffer RAM: the trace and one word not written yet
CycleRam == TraceTape \o << <<0, 0, 0, 0>> >>

CycleRegions == <<4, 4>>

\* the parser after __init__, as the record the effects work on
NewParser ==
  [comparator_map |-> [c \in {} |-> 0], trace_configured |-> FALSE,
   etb_buffer_size |-> ETB_BUFFER_SIZE, is_running |-> FALSE,
   hw |-> [r \in TrackedRegs |-> 0], launched |-> FALSE, outcome |-> "ok"]

\* the parser after a start() that met no fault, on a target whose RWD
\* register holds the depth of CycleRam
Started == StartEffect(NewParser, CycleRegions, TRUE, Len(CycleRam), 0, NoFault)

InitCycle ==
  /\ regions = CycleRegions
  /\ comparator_map = Started.comparator_map
  /\ trace_configured = Started.trace_configured
  /\ etb_buffer_size = Started.etb_buffer_size
  /\ is_running = Started.is_running
  /\ hw = Started.hw
  /\ rx = <<"recv">>
  /\ rxq = [r \in 1..Len(regions) |-> << >>]
  /\ last_call = [op |-> "start", outcome |-> "ok", faulted |-> FALSE,
                  launched |-> TRUE]
  /\ ncalls = 1
  /\ last_stream = "none"
  /\ last_recv = NoReceive
  /\ ParseIdle
  /\ DrainIdle
  /\ ThreadsIdle
  /\ AuxIdle

\* the trace hardware writes the next word of the trace at the write
\* pointer
CycleCapture ==
  /\ etb.rwp < Len(TraceTape)
  /\ etb' = [etb EXCEPT !.rwp = @ + 1, !.sts = 1, !.captures = @ + 1]
  /\ UNCHANGED <<regions, sysvars, parsevars, drained, threadvars, auxvars>>

\* the inputs of a receive() call besides the ETB: the fault its drain
\* meets and, by what the drain returns, whether the try block raises or
\* the random poll happens, with the regions a polling cycle reads
CycleInputs(stream_empty) ==
  IF stream_empty
  THEN [random_poll : BOOLEAN, ok : {1..Len(regions), {}}, exc : {FALSE}]
  ELSE [random_poll : {FALSE}, ok : {1..Len(regions)}, exc : BOOLEAN]

\* one receive() of the rx thread in trace mode
CycleReceive ==
  /\ Len(cycles) < MaxCycles
  /\ trace_configured
  /\ \E fault \in Faults(MaxDrainOps) :
       LET d == ReadEtbBuffer(etb.sts, etb.rrp, etb.rwp, etb_buffer_size,
                              CycleRam, fault)
           stream == Flatten(d.words)
       IN  \E in \in CycleInputs(stream = << >>) :
             LET res == Receive(rxq, regions, comparator_map, trace_configured,
                                stream, in.random_poll, in.ok, in.exc)
                 added == [r \in DOMAIN rxq |->
                             SubSeq(res.q[r], Len(rxq[r]) + 1, Len(res.q[r]))]
             IN  /\ rxq' = res.q
                 /\ etb' = IF d.wrote THEN [etb EXCEPT !.rrp = d.rwp] ELSE etb
                 /\ drained' = [words |-> d.words, sts |-> d.sts, rrp |-> d.rrp,
                                rwp |-> d.rwp, reqs |-> d.reqs, wrote |-> d.wrote,
                                complete |-> d.complete, fault |-> fault,
                                calls |-> drained.calls + 1]
                 /\ last_stream' = IF stream = << >> THEN "empty" ELSE "data"
                 /\ last_recv' = IF in.exc THEN [exc |-> TRUE, polls |-> res.polls]
                                  ELSE NoReceive
                 /\ cycles' = Append(cycles, [stream |-> stream, fault |-> fault,
                                              exc |-> in.exc, added |-> added])
  /\ UNCHANGED <<regions, comparator_map, trace_configured, etb_buffer_size,
                 is_running, rx, hw, last_call, ncalls, parsevars, threadvars,
                 detect>>

NextCycle == CycleCapture \/ CycleReceive

SpecCycle == InitCycle /\ [][NextCycle]_vars

----------------------------------------------------------------------------
(***************************************************************************)
(* Properties.                                                             *)
(***************************************************************************)
\* a DWT hardware-source header the scan decodes: bit 2 set and
\* discriminator 1, 2 or 3 (discriminators 14 and 15 have top nibble 7)
RecognisedDwtHeader(h) == (h \div 4) % 2 = 1 /\ (h \div 8) % 32 \in {1, 2, 3}

FirstComparator == trace_stream[1] % 4

\* C1 (as amended): when the scan of a stream holding one DWT packet with a
\* recognised discriminator (1, 2 or 3) and a 4-byte payload has returned,
\* and the packet's comparator is mapped to a region of byte count 4, the
\* result holds exactly one payload, for that region, equal to the payload
\* bytes; the scan of [0x04, 0xAB] (discriminator 0) returns no payload.
C1_SinglePacket ==
  ppc = "done" =>
    /\ ( /\ Len(trace_stream) = 5
         /\ RecognisedDwtHeader(trace_stream[1])
         /\ FirstComparator \in DOMAIN comparator_map
         /\ regions[comparator_map[FirstComparator]] = 4 )
       => region_data = (comparator_map[FirstComparator] :> << Tail(trace_stream) >>)
    /\ trace_stream = <<4, 171>> => region_data = EmptyDict

C1_Witness ==
  /\ ppc = "done"
  /\ trace_stream = <<12, 171, 205, 239, 1>>
  /\ regions = <<4>>
  /\ region_data = (1 :> << <<171, 205, 239, 1>> >>)

\* C1 as stated: a stream holding one DWT packet (bit 2 set) whose payload
\* has the size the table on bits 2:1 gives, and whose comparator is mapped
\* to a region of that byte count, yields exactly that payload for the
\* region; and [0x04, 0xAB] with comparator 0 mapped to a region of byte
\* count 1 yields the payload 0xAB.
C1_Original ==
  ppc = "done" =>
    /\ ( /\ Len(trace_stream) >= 2
         /\ (trace_stream[1] \div 4) % 2 = 1
         /\ Len(trace_stream) - 1 = <<1, 2, 4, 4>>[((trace_stream[1] \div 2) % 4) + 1]
         /\ FirstComparator \in DOMAIN comparator_map
         /\ regions[comparator_map[FirstComparator]] = Len(trace_stream) - 1 )
       => region_data = (comparator_map[FirstComparator] :> << Tail(trace_stream) >>)
    /\ (trace_stream = <<4, 171>> /\ regions[1] = 1)
       => region_data = (1 :> << <<171>> >>)

\* the words at offsets a .. b of the buffer RAM, none when b < a
Range(a, b) == [i \in 1..(b - a + 1) |-> a + i - 1]

BufferWords == etb_buffer_size \div 4

\* a drain that met no fault, found the data-available bit set and the write
\* pointer behind the read pointer
WrappedDrain ==
  /\ drained.calls > 0
  /\ drained.fault = NoFault
  /\ drained.sts % 2 = 1
  /\ drained.rwp < drained.rrp

WrapAroundWords ==
  /\ drained.words = Range(drained.rrp, BufferWords - 1) \o Range(0, drained.rwp - 1)
  /\ Len(drained.words) = (drained.rwp - drained.rrp) % BufferWords
  /\ \A i, j \in 1..Len(drained.words) : i # j => drained.words[i] # drained.words[j]

\* C3 (as amended): in the wrap-around case, for every write pointer and
\* every read pointer that is at most buffer_words, the drain returns the
\* words from the read pointer to the end of the buffer, then the words from
\* the buffer start up to the write pointer: (write - read) mod buffer_words
\* words, none twice.
C3_WrapAround == (WrappedDrain /\ drained.rrp <= BufferWords) => WrapAroundWords

C3_Witness ==
  /\ WrappedDrain
  /\ BufferWords = 8 /\ drained.rrp = 6 /\ drained.rwp = 2
  /\ drained.words = <<6, 7, 0, 1>>

\* C3 as stated: the same for every read and write pointer value.
C3_Original == WrappedDrain => WrapAroundWords

\* C4: the scan of every stream returns; no iteration moves the cursor
\* backward, each moves it by at least the header byte and not past the end
\* of the stream, and there are at most len(stream) iterations.
C4_ScanTerminates ==
  /\ [][ppc = "scan" /\ ppc' = "scan"
          => /\ offset' >= offset + 1
             /\ offset' <= Len(trace_stream)
             /\ iters' = iters + 1]_vars
  /\ [](iters <= Len(trace_stream) /\ offset <= Len(trace_stream))
  /\ <>(ppc = "done")

C4_Witness ==
  /\ ppc = "done"
  /\ Len(trace_stream) = 3
  /\ \A i \in 1..3 : trace_stream[i] = 128
  /\ iters = 3

\* C2: every packet on a region's queue, and so every packet receive()
\* enqueued from the trace path, has raw length equal to the region's byte
\* count.
C2_ExactLength ==
  \A r \in DOMAIN rxq : \A i \in 1..Len(rxq[r]) :
    Len(rxq[r][i].raw) = regions[r]

\* a 2-byte region holds a packet cut from a 4-byte trace payload
C2_Witness ==
  /\ Len(regions) >= 2
  /\ rxq[2] # << >>
  /\ rxq[2][1].via = "trace"
  /\ rxq[2][1].raw = <<5, 6>>

\* C5: the comparator table has keys in 0..3 only, no region at position 4
\* or later (name 5 or later here) is registered in it, and no packet
\* decoded from the trace is on the queue of such a region.
C5_ComparatorLimit ==
  /\ DOMAIN comparator_map \subseteq 0..3
  /\ \A c \in DOMAIN comparator_map : comparator_map[c] <= 4
  /\ \A r \in DOMAIN rxq : r > 4 =>
       \A i \in 1..Len(rxq[r]) : rxq[r][i].via # "trace"

C5_Witness ==
  /\ Len(regions) >= 5
  /\ trace_configured
  /\ DOMAIN comparator_map = 0..3
  /\ rxq[1] # << >> /\ rxq[1][1].via = "trace"
  /\ rxq[5] # << >> /\ rxq[5][1].via = "poll"

\* C6 as stated, for the cycles whose drain returns trace data: while trace
\* mode is active and the rx thread runs, a region without a comparator (the
\* fifth) eventually has a packet on its queue, also when no drain comes
\* back empty.
C6_UnassignedRegionPolled ==
  []( (trace_configured /\ is_running /\ Len(regions) >= 5 /\ rxq[5] = << >>)
        => <>( (Len(regions) >= 5 /\ rxq[5] # << >>)
               \/ ~trace_configured \/ ~is_running
               \/ last_stream = "empty" ) )

\* C7 as stated: a start() that connected and then met a failing
\* configuration step completes normally with the rx thread launched.
C7_ConfigFailureDegrades ==
  (last_call.op = "start" /\ last_call.faulted)
    => (last_call.outcome = "ok" /\ last_call.launched /\ is_running)

StartFailedToConnect ==
  last_call.op = "start" /\ last_call.outcome = "ConnectionError"

\* C8: a start() whose connect fails raises ConnectionError and changes
\* nothing: it writes no register, leaves the comparator table, the
\* trace_configured flag, the buffer size and the running flag as they were
\* and launches no rx thread; on a new parser the table is then empty, trace
\* unconfigured, the flag clear and no rx thread exists.
C8_ConnectFailure ==
  /\ [][ (ncalls' = ncalls + 1 /\ StartFailedToConnect')
           => /\ hw' = hw
              /\ comparator_map' = comparator_map
              /\ trace_configured' = trace_configured
              /\ etb_buffer_size' = etb_buffer_size
              /\ is_running' = is_running
              /\ rx' = rx
              /\ ~last_call'.launched ]_vars
  /\ []( (ncalls = 1 /\ StartFailedToConnect)
           => /\ \A r \in DOMAIN hw : hw[r] = 0
              /\ DOMAIN comparator_map = {}
              /\ ~trace_configured
              /\ ~is_running
              /\ \A w \in DOMAIN rx : rx[w] = "done" )

C8_Witness == ncalls = 1 /\ StartFailedToConnect

StopStep == ncalls' = ncalls + 1 /\ last_call'.op = "stop"

\* C9 as stated: after any stop() the comparator table is empty, trace is
\* unconfigured, the function register of every comparator that was assigned
\* holds FUNC_DISABLED, and a sink that was enabled is disabled.
C9_StopTearsDown ==
  [][ StopStep
        => /\ last_call'.outcome = "ok"
           /\ DOMAIN comparator_map' = {}
           /\ ~trace_configured'
           /\ \A c \in DOMAIN comparator_map :
                Reg("DWT_FUNCTION0", c) \in DOMAIN hw
                  => hw'[Reg("DWT_FUNCTION0", c)] = FUNC_DISABLED
           /\ hw[Reg("ETB_CTL", 0)] = 1 => hw'[Reg("ETB_CTL", 0)] = 0 ]_vars

\* C10 as stated: once stop() has been called the running flag is clear, so
\* that the rx thread exits at its next check.
C10_StopClearsRunning == [][ StopStep => ~is_running' ]_vars

\* the rx threads that have not left their loop
LiveWorkers == {w \in DOMAIN rx : rx[w] # "done"}

\* C12 as stated: after any sequence of start() and stop() calls at most one
\* rx thread is in the receive loop.
C12_SingleWorker == Cardinality(LiveWorkers) <= 1

\* a step in which an rx thread runs receive()
RxReceiveStep == \E w \in DOMAIN rx : rx[w] = "recv" /\ rx'[w] = "check"

\* C19: a receive() in trace mode whose try block raises runs exactly one
\* polling cycle, whose packets are all it adds to the queues, and leaves
\* trace_configured true; while trace_configured is true every receive()
\* calls the drain; and trace_configured goes from true to false in stop()
\* only.
C19_ExceptionPollsOnce ==
  /\ [][ (RxReceiveStep /\ trace_configured /\ last_recv'.exc)
           => /\ last_recv'.polls = 1
              /\ \E ok \in PollOutcomes(regions) :
                   rxq' = PollReceive(rxq, regions, ok)
              /\ trace_configured' ]_vars
  /\ [][ (RxReceiveStep /\ trace_configured)
           => last_stream' \in {"empty", "data"} ]_vars
  /\ [][ (trace_configured /\ ~trace_configured') => StopStep ]_vars

\* a raising receive() has polled every region, and trace is still on
C19_Witness ==
  /\ trace_configured
  /\ last_recv = [exc |-> TRUE, polls |-> 1]
  /\ last_stream = "data"
  /\ \A r \in DOMAIN rxq : rxq[r] # << >> /\ rxq[r][1].via = "poll"

\* the fault hits a register write of start(): commands 1 and 2 are the
\* reads of RWD and DWT_CTRL, every later command is a write
FailsWrite(fault) == fault.kind # "none" /\ fault.at >= 3

\* the step is start() run with the inputs in
StartTook(in) ==
  LET s == StartEffect(SysState, regions, in.connect_ok, in.depth, 0, in.fault)
  IN  /\ comparator_map' = s.comparator_map
      /\ trace_configured' = s.trace_configured
      /\ etb_buffer_size' = s.etb_buffer_size
      /\ is_running' = s.is_running
      /\ hw' = s.hw
      /\ last_call'.outcome = s.outcome

\* C20 as stated: after a start() in which a register write was not
\* acknowledged or raised, trace_configured is false.
C20_WriteFailureDisablesTrace ==
  [][ (ncalls' = ncalls + 1 /\ last_call'.op = "start")
        => \A in \in StartInputs(regions) :
             (in.connect_ok /\ FailsWrite(in.fault) /\ StartTook(in))
               => ~trace_configured' ]_vars

\* the latest drain met an exception in a register or memory read that it
\* issued: the status read, a pointer read when the data-available bit was
\* set, or one of the memory reads when the pointers differed
DrainReadRaised ==
  /\ drained.calls > 0
  /\ drained.fault.kind = "raise"
  /\ \/ drained.fault.at = 1
     \/ drained.fault.at \in {2, 3} /\ drained.sts % 2 = 1
     \/ /\ drained.fault.at > 3
        /\ drained.sts % 2 = 1
        /\ drained.rrp # drained.rwp
        /\ drained.fault.at
             <= 3 + Len(EtbRequests(drained.rrp, drained.rwp, etb_buffer_size))

\* C15 as stated: a drain in which a register or memory read raised returns
\* the empty stream.
C15_ReadFailureEmpty == DrainReadRaised => drained.words = << >>

\* C16 as stated: a drain that returned trace words has written the read
\* pointer, which now equals the write pointer the drain observed.
C16_ReadPointerAdvanced ==
  (drained.calls > 0 /\ drained.words # << >>)
    => (drained.wrote /\ etb.rrp = drained.rwp)

\* the DWT packet at the cursor and the region its comparator is mapped to
PacketAt == ParseDwtPacket(trace_stream[offset + 1], offset + 1, trace_stream)

RegionAt == comparator_map[PacketAt.num]

\* a scan iteration that appends a payload to region_data
EmitStep == ppc = "scan" /\ ppc' = "scan" /\ region_data' # region_data

\* the bytes accumulated for the packet at the cursor: its captured payload
\* and, when that is shorter than the region and the stream has them, the
\* bytes that follow up to the region's byte count
AccumulatedAt ==
  LET captured == Len(PacketAt.data)
      expected == regions[RegionAt]
  IN  IF captured < expected /\ offset + 1 + expected <= Len(trace_stream)
      THEN expected ELSE captured

\* C17 as stated: the scan appends a payload for a region only when the
\* bytes accumulated for the packet number exactly the region's byte count.
C17_EmitsExactCountOnly ==
  [][ EmitStep => AccumulatedAt = regions[RegionAt] ]_vars

\* C18 as stated: when the scan emits a payload that it extended to the
\* region's byte count, the cursor moves past the header and every byte of
\* the emitted payload.
C18_CursorPastPayload ==
  [][ (EmitStep /\ Len(PacketAt.data) < regions[RegionAt])
        => offset' >= offset + 1 + regions[RegionAt] ]_vars

\* C13: the detection returns 4 * d bytes when the register read succeeds
\* with a value d, 0 < d < 0x10000 (2048 for d = 512), and the default 2048
\* bytes when d = 0, when d >= 0x10000, and when the read fails.
C13_DetectBufferSize ==
  detect.pc = "done" =>
    LET d      == detect.depth
        failed == detect.fault.kind # "none"
    IN  /\ (~failed /\ 0 < d /\ d < 65536) => detect.size = 4 * d
        /\ (~failed /\ d = 512) => detect.size = 2048
        /\ (failed \/ d = 0 \/ d >= 65536) => detect.size = 2048
        /\ etb_buffer_size = detect.size

\* the largest depth that is accepted
C13_Witness ==
  /\ detect.pc = "done"
  /\ detect.fault = NoFault
  /\ detect.depth = 65535
  /\ detect.size = 262140

\* C11 as stated: while an rx thread is running no other thread has a
\* command on the connection, and two commands are never on it together.
C11_WorkerOwnsTransport ==
  /\ InFlight("stop") => LiveWorkers = {}
  /\ Len(wire) <= 1

\* the cursor positions at which the scan of stream reads a header
RECURSIVE ScanOffsets(_, _, _, _)
ScanOffsets(stream, cmap, regs, st) ==
  IF st.offset < Len(stream)
  THEN {st.offset} \cup ScanOffsets(stream, cmap, regs, ParseStep(stream, cmap, regs, st))
  ELSE {}

\* the scan of stream reads a DWT header with a recognised discriminator
\* for which fewer bytes remain than its payload size
CutOffAtEnd(stream) ==
  \E o \in ScanOffsets(stream, comparator_map, regions, ScanStart) :
    /\ RecognisedDwtHeader(stream[o + 1])
    /\ o + 1 + DwtPayloadSize(stream[o + 1]) > Len(stream)

\* a receive cycle whose drain met no fault and returned data, and whose try
\* block did not raise
CleanCycle(c) == c.fault = NoFault /\ ~c.exc /\ c.stream # << >>

\* C14 as stated: when a DWT packet is cut off by the end of the stream of
\* one cycle and the next cycle drains the rest, the packets the two cycles
\* enqueue are those of the scan of the unsplit stream: the cut packet once,
\* with its complete payload, and the packets that follow it.
C14_CutPacketRetried ==
  \A i \in 1..(Len(cycles) - 1) :
    (CleanCycle(cycles[i]) /\ CleanCycle(cycles[i + 1]) /\ CutOffAtEnd(cycles[i].stream))
      => [r \in DOMAIN rxq |-> cycles[i].added[r] \o cycles[i + 1].added[r]]
           = EnqueueTrace([r \in DOMAIN rxq |-> << >>], regions,
                          ParseTracePackets(cycles[i].stream \o cycles[i + 1].stream,
                                            comparator_map, regions))

\* a scan iteration, and the header byte it reads
ScanStep == ppc = "scan" /\ ppc' = "scan"

HeaderAt == trace_stream[offset + 1]

\* the bytes that remain after the header at the cursor
RemainingAt == Len(trace_stream) - (offset + 1)

\* C21 as stated: at a header with bit 0 set the scan consumes the header
\* and a payload of 1, 2 or 4 bytes for size field 0, 1 or 2 when that many
\* bytes remain, consumes the header only for size field 3, and appends no
\* payload to region_data.
C21_StimulusPacket ==
  [][ (ScanStep /\ HeaderAt % 2 = 1)
        => LET size_field == (HeaderAt \div 2) % 4
           IN  /\ (size_field = 0 /\ RemainingAt >= 1) => offset' = offset + 2
               /\ (size_field = 1 /\ RemainingAt >= 2) => offset' = offset + 3
               /\ (size_field = 2 /\ RemainingAt >= 4) => offset' = offset + 5
               /\ size_field = 3 => offset' = offset + 1
               /\ region_data' = region_data ]_vars

\* C22 as stated: at the header 0x70 the scan prints one overflow warning
\* and consumes the header only; at a header with top nibble 0xC it prints
\* no warning and consumes the header only.
C22_OverflowPacket ==
  [][ ScanStep
        => /\ HeaderAt = 112
             => /\ overflow_warnings' = overflow_warnings + 1
                /\ offset' = offset + 1
                /\ region_data' = region_data
           /\ HeaderAt \div 16 = 12
             => /\ overflow_warnings' = overflow_warnings
                /\ offset' = offset + 1
                /\ region_data' = region_data ]_vars

====
